---------------------------- MODULE Spec2Model ----------------------------
(***************************************************************************)
(* Verlet ball simulation (src/src/main.rs): the Bevy systems spawn_ball   *)
(* and update_physics, the deferred command queue that creates entities,  *)
(* and the quadtree resource that indexes the balls.                       *)
(*                                                                         *)
(* Scheduling.  main adds spawn_ball and update_physics to the Update      *)
(* schedule without an ordering between them, so each frame runs them in   *)
(* either order; commands.spawn is deferred and takes effect when the      *)
(* schedule ends, while quadtree.0.insert takes effect at once.  A failed  *)
(* unwrap panics and ends the program.  update_physics is one atomic       *)
(* system; the model shows it phase by phase, one action per function it   *)
(* calls, each action being the whole loop of that function.               *)
(*                                                                         *)
(* Numbers.  f32 lengths are fixed-point integers, SCALE units per length  *)
(* unit; durations are integer milliseconds.  Division truncates toward    *)
(* zero and the square root rounds down, which stands for f32 rounding.    *)
(* A Vec2 carries a flag nan: glam's normalize of the zero vector yields   *)
(* NaN in both components, every arithmetic operation on a NaN vector      *)
(* yields a NaN vector, and every comparison with NaN is false.            *)
(***************************************************************************)
EXTENDS Integers, Sequences, FiniteSets, TLC

\* ------------------------------------------------------------------ bounds
MaxBalls == 2
MaxFrames == 5

\* fixed-point resolution: units per length unit
SCALE == 2 * 2

\* ------------------------------------------------------- program constants
GRAVITY == -1000
ARENA_MIN_X == -900
ARENA_MIN_Y == -500
ARENA_MAX_X == 900
ARENA_MAX_Y == 500
num_substeps == 5

\* ---------------------------------------------------------------- inputs
\* radius = rng.gen::<f32>() * 10.0 + 5.0, a value of [5, 15) (fixed point)
Radii == {10 * SCALE, 12 * SCALE}
\* position_old = Vec2::new(rng.gen(), rng.gen()), each a value of [0, 1)
Jitters == {0, SCALE \div 2}
\* time.delta() in milliseconds as seen by update_physics
Deltas == {0, 500}

\* ------------------------------------------------------------- arithmetic
Abs(a) == IF a < 0 THEN -a ELSE a

\* division rounding toward zero
Div(a, b) == IF a >= 0 THEN a \div b ELSE -((-a) \div b)

RECURSIVE SqrtIter(_, _, _)
SqrtIter(n, lo, hi) ==
    IF lo >= hi THEN lo
    ELSE LET mid == (lo + hi + 1) \div 2
         IN  IF mid * mid <= n THEN SqrtIter(n, mid, hi)
             ELSE SqrtIter(n, lo, mid - 1)

\* f32::sqrt, rounding down to the grid
Sqrt(n) == SqrtIter(n, 0, n)

\* ------------------------------------------------------------------- Vec2
Vec2(x, y) == [x |-> x, y |-> y, nan |-> FALSE]
ZERO == Vec2(0, 0)
NAN == [x |-> 0, y |-> 0, nan |-> TRUE]

VAdd(a, b) == IF a.nan \/ b.nan THEN NAN ELSE Vec2(a.x + b.x, a.y + b.y)
VSub(a, b) == IF a.nan \/ b.nan THEN NAN ELSE Vec2(a.x - b.x, a.y - b.y)

\* Vec2 * f32 where the scalar is a duration in milliseconds
VMulTime(a, ms) ==
    IF a.nan THEN NAN ELSE Vec2(Div(a.x * ms, 1000), Div(a.y * ms, 1000))

\* Vec2::length of a non-NaN vector
Length(a) == Sqrt(a.x * a.x + a.y * a.y)

\* dist.length() < bound  (false when dist is NaN)
LengthLess(a, bound) == ~a.nan /\ Length(a) < bound

\* n * (overlap / 2.0) with n = dist.normalize(): the unit vector scaled by
\* the half overlap; the zero vector has no direction and normalizes to NaN
NormalizeTimes(dist, half) ==
    IF dist.nan \/ Length(dist) = 0 THEN NAN
    ELSE Vec2(Div(dist.x * half, Length(dist)), Div(dist.y * half, Length(dist)))

\* ------------------------------------------------------------------- Rect
\* rect::Rect of the quadtree crate: corner (x, y) and size (w, h)
Rect(x, y, w, h, nan) == [x |-> x, y |-> y, w |-> w, h |-> h, nan |-> nan]

new_centered(c, w, h) ==
    IF c.nan THEN Rect(0, 0, w, h, TRUE)
    ELSE Rect(c.x - Div(w, 2), c.y - Div(h, 2), w, h, FALSE)

\* AABB intersection: the projections on both axes intersect
Intersects(a, b) ==
    /\ ~a.nan /\ ~b.nan
    /\ a.x < b.x + b.w /\ b.x < a.x + a.w
    /\ a.y < b.y + b.h /\ b.y < a.y + a.h

\* --------------------------------------------------------------- Quadtree
\* Quadtree<Entity> of the quadtree crate, as the sequence of its entries in
\* traversal order; an entry is a value (the Entity) and its region
Entry(value, region) == [value |-> value, region |-> region]

insert(qt, value, region) == Append(qt, Entry(value, region))

move_entry(entry, new_region) == [entry EXCEPT !.region = new_region]

\* the indices of the entries whose region intersects the query rectangle
get_overlapped(qt, query) ==
    {i \in DOMAIN qt : Intersects(qt[i].region, query)}

\* ------------------------------------------------------------------ state
VARIABLES
    balls,      \* Entity -> VerletObject and Ball components (spawned entities)
    commands,   \* Commands: the queued spawns of this frame
    quadtree,   \* QuadtreeRes
    clock,      \* Res<Time>: the deltas the clock can report
    pc,         \* "update", a phase of update_physics, or "panicked"
    substep,    \* the loop counter of update_physics
    dt,         \* the local dt of update_physics (milliseconds)
    frame,      \* number of the current frame
    ran,        \* the systems of the Update schedule that ran this frame
    log,        \* history: the phases update_physics executed in this call
    nsub,       \* history: update_position calls executed so far
    pushed,     \* history: the latest collision pass has moved a ball
    clamped     \* history: a boundary clamp has moved a ball

vars == <<balls, commands, quadtree, clock, pc, substep, dt, frame, ran,
          log, nsub, pushed, clamped>>

Body(cur, old, radius) ==
    [position_current |-> cur, position_old |-> old,
     acceleration |-> ZERO, radius |-> radius]

\* ---------------------------------------------------------- update_physics
apply_gravity(b) ==
    [e \in DOMAIN b |->
        [b[e] EXCEPT !.acceleration =
            VAdd(b[e].acceleration, Vec2(0, GRAVITY * SCALE))]]

\* update_position that leaves position_old as it was
update_position_keeps_old(sub_dt, b) ==
    [e \in DOMAIN b |->
        LET velocity == VSub(b[e].position_current, b[e].position_old)
            acc == b[e].acceleration
        IN  [b[e] EXCEPT
                !.position_current =
                    VAdd(b[e].position_current,
                         VAdd(velocity, VMulTime(VMulTime(acc, sub_dt), sub_dt))),
                !.acceleration = ZERO]]

update_position(sub_dt, b) ==
    [e \in DOMAIN b |->
        LET velocity == VSub(b[e].position_current, b[e].position_old)
            acc == b[e].acceleration
        IN  [b[e] EXCEPT
                !.position_old = b[e].position_current,
                !.position_current =
                    VAdd(b[e].position_current,
                         VAdd(velocity, VMulTime(VMulTime(acc, sub_dt), sub_dt))),
                !.acceleration = ZERO]]

\* verlet_objects.get(*entity).unwrap() succeeds for every entry
LookupsSucceed(qt, b) == \A i \in DOMAIN qt : qt[i].value \in DOMAIN b

\* update_quadtree that sizes the box as spawn_ball does
update_quadtree_spawn_size(qt, b) ==
    [i \in DOMAIN qt |->
        LET e == qt[i].value
        IN  move_entry(qt[i],
                new_centered(b[e].position_current,
                             Div(b[e].radius, 2), Div(b[e].radius, 2)))]

\* update_quadtree that centers the box on the position before integration
update_quadtree_stale(qt, b) ==
    [i \in DOMAIN qt |->
        LET e == qt[i].value
        IN  move_entry(qt[i],
                new_centered(b[e].position_old,
                             b[e].radius * 2, b[e].radius * 2))]

update_quadtree(qt, b) ==
    [i \in DOMAIN qt |->
        LET e == qt[i].value
        IN  move_entry(qt[i],
                new_centered(b[e].position_current,
                             b[e].radius * 2, b[e].radius * 2))]

\* the displacement of the ball of entry i away from the ball of entry j
Push(b, qt, i, j) ==
    LET me == b[qt[i].value]
        other == b[qt[j].value]
        dist == VSub(other.position_current, me.position_current)
    IN  IF LengthLess(dist, me.radius + other.radius)
        THEN LET overlap == me.radius + other.radius - Length(dist)
             IN  NormalizeTimes(dist, Div(overlap, 2))
        ELSE ZERO

RECURSIVE PushSum(_, _, _, _)
PushSum(b, qt, i, others) ==
    IF others = {} THEN ZERO
    ELSE LET j == CHOOSE k \in others : TRUE
         IN  VAdd(Push(b, qt, i, j), PushSum(b, qt, i, others \ {j}))

\* new_positions that pulls a ball toward its neighbours (+= for -=)
new_positions_attract(b, qt) ==
    [i \in DOMAIN qt |->
        LET others == {j \in get_overlapped(qt, qt[i].region) :
                          qt[j].value # qt[i].value}
        IN  [entity |-> qt[i].value,
             new_position |->
                VAdd(b[qt[i].value].position_current, PushSum(b, qt, i, others))]]

\* the first loop of solve_colisions: new_positions, one per entry
new_positions(b, qt) ==
    [i \in DOMAIN qt |->
        LET others == {j \in get_overlapped(qt, qt[i].region) :
                          qt[j].value # qt[i].value}
        IN  [entity |-> qt[i].value,
             new_position |->
                VSub(b[qt[i].value].position_current, PushSum(b, qt, i, others))]]

\* the second loop of solve_colisions: write the new positions in order
RECURSIVE ApplyPositions(_, _, _)
ApplyPositions(b, np, i) ==
    IF i > Len(np) THEN b
    ELSE ApplyPositions(
            [b EXCEPT ![np[i].entity].position_current = np[i].new_position],
            np, i + 1)

\* solve_colisions that writes each new position while it scans
RECURSIVE InPlace(_, _, _)
InPlace(b, qt, i) ==
    IF i > Len(qt) THEN b
    ELSE InPlace(
            [b EXCEPT ![qt[i].value].position_current =
                          new_positions(b, qt)[i].new_position],
            qt, i + 1)

solve_colisions_in_place(b, qt) == InPlace(b, qt, 1)

solve_colisions(b, qt) == ApplyPositions(b, new_positions(b, qt), 1)

\* Rect::width and Rect::height of ARENA
ARENA_width == (ARENA_MAX_X - ARENA_MIN_X) * SCALE
ARENA_height == (ARENA_MAX_Y - ARENA_MIN_Y) * SCALE

\* the body of the loop of solve_constraints; a comparison with NaN is false
constrain(vo) ==
    IF vo.position_current.nan THEN vo
    ELSE
    LET r == vo.radius
        p0 == vo.position_current
        x1 == IF p0.x - r < ARENA_MIN_X * SCALE
              THEN ARENA_MIN_X * SCALE + r ELSE p0.x
        x2 == IF x1 + r > ARENA_MIN_X * SCALE + ARENA_width
              THEN ARENA_MIN_X * SCALE + ARENA_width - r ELSE x1
        y1 == IF p0.y - r < ARENA_MIN_Y * SCALE
              THEN ARENA_MIN_Y * SCALE + r ELSE p0.y
        y2 == IF y1 + r > ARENA_MIN_Y * SCALE + ARENA_height
              THEN ARENA_MIN_Y * SCALE + ARENA_height - r ELSE y1
    IN  [vo EXCEPT !.position_current = Vec2(x2, y2)]

solve_constraints(b) == [e \in DOMAIN b |-> constrain(b[e])]

\* ------------------------------------------------------------------ systems
Phases == <<"apply_gravity", "update_position", "update_quadtree",
            "solve_colisions", "solve_constraints">>

\* spawn_ball: returns at once unless a key is pressed; otherwise queues the
\* spawn of the entity and inserts its box into the quadtree immediately
SpawnBall(keys) ==
    /\ pc = "update"
    /\ "spawn_ball" \notin ran
    /\ frame <= MaxFrames
    /\ ran' = ran \cup {"spawn_ball"}
    /\ \E pressed \in keys :
        IF ~pressed \/ Cardinality(DOMAIN balls) + Len(commands) >= MaxBalls
        THEN UNCHANGED <<commands, quadtree>>
        ELSE \E radius \in Radii, jx \in Jitters, jy \in Jitters :
                LET ball_entity == Cardinality(DOMAIN balls) + Len(commands) + 1
                IN  /\ commands' = Append(commands,
                            [entity |-> ball_entity,
                             bundle |-> Body(ZERO, Vec2(jx, jy), radius)])
                    /\ quadtree' = insert(quadtree, ball_entity,
                            new_centered(ZERO, Div(radius, 2), Div(radius, 2)))
    /\ UNCHANGED <<balls, clock, pc, substep, dt, frame, log, nsub, pushed, clamped>>

\* the host may press or hold the spawn key in any frame
spawn_ball == SpawnBall(BOOLEAN)

\* update_physics up to the first iteration of its loop
update_physics ==
    /\ pc = "update"
    /\ "update_physics" \notin ran
    /\ frame <= MaxFrames
    /\ \E delta \in clock : dt' = delta
    /\ substep' = 0
    /\ pc' = Phases[1]
    /\ log' = <<>>
    /\ UNCHANGED <<balls, commands, quadtree, clock, frame, ran, nsub, pushed, clamped>>

ApplyGravity ==
    /\ pc = "apply_gravity"
    /\ balls' = apply_gravity(balls)
    /\ pc' = "update_position"
    /\ log' = Append(log, pc)
    /\ UNCHANGED <<commands, quadtree, clock, substep, dt, frame, ran, nsub,
                   pushed, clamped>>

\* update_position followed at once by solve_colisions
UpdatePosition_skips_resync ==
    /\ pc = "update_position"
    /\ balls' = update_position(Div(dt, num_substeps), balls)
    /\ pc' = "solve_colisions"
    /\ log' = Append(log, pc)
    /\ nsub' = nsub + 1
    /\ UNCHANGED <<commands, quadtree, clock, substep, dt, frame, ran, pushed,
                   clamped>>

UpdatePosition ==
    /\ pc = "update_position"
    /\ balls' = update_position(Div(dt, num_substeps), balls)
    /\ pc' = "update_quadtree"
    /\ log' = Append(log, pc)
    /\ nsub' = nsub + 1
    /\ UNCHANGED <<commands, quadtree, clock, substep, dt, frame, ran, pushed,
                   clamped>>

\* the unwrap of a failed lookup panics and ends the program
UpdateQuadtree ==
    /\ pc = "update_quadtree"
    /\ log' = Append(log, pc)
    /\ IF LookupsSucceed(quadtree, balls)
       THEN /\ quadtree' = update_quadtree(quadtree, balls)
            /\ pc' = "solve_colisions"
       ELSE /\ pc' = "panicked"
            /\ UNCHANGED quadtree
    /\ UNCHANGED <<balls, commands, clock, substep, dt, frame, ran, nsub,
                   pushed, clamped>>

SolveColisions ==
    /\ pc = "solve_colisions"
    /\ log' = Append(log, pc)
    /\ IF LookupsSucceed(quadtree, balls)
       THEN /\ balls' = solve_colisions(balls, quadtree)
            /\ pc' = "solve_constraints"
       ELSE /\ pc' = "panicked"
            /\ UNCHANGED balls
    /\ pushed' = (balls' # balls)
    /\ UNCHANGED <<commands, quadtree, clock, substep, dt, frame, ran, nsub,
                   clamped>>

\* solve_constraints, then the end of the loop body: the next iteration, or
\* the return of update_physics
SolveConstraints ==
    /\ pc = "solve_constraints"
    /\ log' = Append(log, pc)
    /\ balls' = solve_constraints(balls)
    /\ clamped' = (clamped \/ balls' # balls)
    /\ substep' = substep + 1
    /\ IF substep + 1 < num_substeps
       THEN /\ pc' = Phases[1]
            /\ UNCHANGED <<dt, ran>>
       ELSE /\ pc' = "update"
            /\ dt' = 0
            /\ ran' = ran \cup {"update_physics"}
    /\ UNCHANGED <<commands, quadtree, clock, frame, nsub, pushed>>

\* the spawn commands applied to the world, in order
RECURSIVE Flush(_, _)
Flush(b, cmds) ==
    IF cmds = <<>> THEN b
    ELSE Flush([e \in DOMAIN b \cup {Head(cmds).entity} |->
                    IF e = Head(cmds).entity THEN Head(cmds).bundle ELSE b[e]],
               Tail(cmds))

\* the end of the Update schedule: the deferred commands are applied and the
\* next frame begins
EndFrame ==
    /\ pc = "update"
    /\ ran = {"spawn_ball", "update_physics"}
    /\ balls' = Flush(balls, commands)
    /\ commands' = <<>>
    /\ frame' = frame + 1
    /\ ran' = {}
    /\ UNCHANGED <<quadtree, clock, pc, substep, dt, log, nsub, pushed, clamped>>

Init ==
    /\ balls = <<>>
    /\ commands = <<>>
    /\ quadtree = <<>>
    /\ clock = Deltas
    /\ pc = "update"
    /\ substep = 0
    /\ dt = 0
    /\ frame = 1
    /\ ran = {}
    /\ log = <<>>
    /\ nsub = 0
    /\ pushed = FALSE
    /\ clamped = FALSE

Next ==
    \/ spawn_ball
    \/ update_physics
    \/ ApplyGravity
    \/ UpdatePosition
    \/ UpdateQuadtree
    \/ SolveColisions
    \/ SolveConstraints
    \/ EndFrame

Spec == Init /\ [][Next]_vars

\* -------------------------------------------------------------- scenarios
\* A host that presses no key and whose clock reports one delta, started
\* with balls at rest (position_old = position_current) after a resync:
\* two balls of radius 10 whose centers are 15 apart with a delta of 0, which
\* makes the gravity term acc * dt * dt vanish, or one ball at the spawn
\* point with a positive delta.
PairOffsets ==
    {Vec2(15 * SCALE, 0), Vec2(0, 15 * SCALE),
     Vec2(9 * SCALE, 12 * SCALE), Vec2(-12 * SCALE, 9 * SCALE)}

PairCenters ==
    {ZERO,
     Vec2((ARENA_MIN_X + 10) * SCALE, 0),
     Vec2(0, (ARENA_MIN_Y + 10) * SCALE),
     Vec2((ARENA_MIN_X + 10) * SCALE, (ARENA_MIN_Y + 10) * SCALE),
     Vec2((ARENA_MAX_X - 30) * SCALE, (ARENA_MAX_Y - 30) * SCALE)}

ScenarioDeltas == {250, 500, 1000}

AtRest(p, radius) == Body(p, p, radius)

Indexed(b) ==
    [e \in DOMAIN b |->
        Entry(e, new_centered(b[e].position_current,
                              b[e].radius * 2, b[e].radius * 2))]

InitScenario ==
    /\ \/ /\ \E c \in PairCenters, d \in PairOffsets :
                balls = <<AtRest(c, 10 * SCALE), AtRest(VAdd(c, d), 10 * SCALE)>>
          /\ clock = {0}
       \/ /\ \E radius \in Radii : balls = <<AtRest(ZERO, radius)>>
          /\ \E delta \in ScenarioDeltas : clock = {delta}
    /\ \A e \in DOMAIN balls :
          /\ ARENA_MIN_X * SCALE + balls[e].radius <= balls[e].position_current.x
          /\ balls[e].position_current.x <= ARENA_MAX_X * SCALE - balls[e].radius
          /\ ARENA_MIN_Y * SCALE + balls[e].radius <= balls[e].position_current.y
          /\ balls[e].position_current.y <= ARENA_MAX_Y * SCALE - balls[e].radius
    /\ quadtree = Indexed(balls)
    /\ commands = <<>>
    /\ pc = "update"
    /\ substep = 0
    /\ dt = 0
    /\ frame = 1
    /\ ran = {}
    /\ log = <<>>
    /\ nsub = 0
    /\ pushed = FALSE
    /\ clamped = FALSE

\* spawn_ball in a frame without key input
no_key_pressed == SpawnBall({FALSE})

NextScenario ==
    \/ no_key_pressed
    \/ update_physics
    \/ ApplyGravity
    \/ UpdatePosition
    \/ UpdateQuadtree
    \/ SolveColisions
    \/ SolveConstraints
    \/ EndFrame

SpecScenario == InitScenario /\ [][NextScenario]_vars

\* ----------------------------------------------------------------- claims
\* update_physics has returned in this frame
StepCompleted == pc = "update" /\ "update_physics" \in ran

InStep == pc \in {Phases[k] : k \in DOMAIN Phases}

\* the circle of a ball lies inside ARENA
Contained(vo) ==
    /\ ~vo.position_current.nan
    /\ ARENA_MIN_X * SCALE + vo.radius <= vo.position_current.x
    /\ vo.position_current.x <= ARENA_MAX_X * SCALE - vo.radius
    /\ ARENA_MIN_Y * SCALE + vo.radius <= vo.position_current.y
    /\ vo.position_current.y <= ARENA_MAX_Y * SCALE - vo.radius

\* C1: after every completed step the circle of every ball lies inside the
\* arena: min + r <= position_current <= max - r on both axes.
C1_BoundaryContainment ==
    StepCompleted => \A e \in DOMAIN balls : Contained(balls[e])

\* C2: whenever a step runs, every handle in the index refers to a spawned
\* ball and every ball has an index entry, so no lookup fails.
C2_IndexBodyConsistency ==
    /\ pc # "panicked"
    /\ InStep =>
        /\ LookupsSucceed(quadtree, balls)
        /\ \A e \in DOMAIN balls : \E i \in DOMAIN quadtree : quadtree[i].value = e

\* C3: no position_current is ever NaN, also after a collision pass over two
\* balls with coincident centers.
C3_NoNaN == \A e \in DOMAIN balls : ~balls[e].position_current.nan

\* the radius of an entity, spawned or still queued
RadiusOf(e) ==
    IF e \in DOMAIN balls THEN balls[e].radius
    ELSE LET c == CHOOSE k \in DOMAIN commands : commands[k].entity = e
         IN  commands[c].bundle.radius

\* C4: in every state the index box of every ball is a square of side
\* 2 x radius, and the box spawn inserts is centered on the spawn point.
C4_IndexBoxSize ==
    \A i \in DOMAIN quadtree :
        /\ quadtree[i].region.w = 2 * RadiusOf(quadtree[i].value)
        /\ quadtree[i].region.h = 2 * RadiusOf(quadtree[i].value)

\* the phases of one complete call of update_physics
RECURSIVE Repeat(_, _)
Repeat(seq, n) == IF n = 0 THEN <<>> ELSE seq \o Repeat(seq, n - 1)

ExpectedLog == Repeat(Phases, 5)

IsPrefix(a, b) == Len(a) <= Len(b) /\ a = SubSeq(b, 1, Len(a))

\* C5: a step runs 5 substeps of sub_dt = frame_dt / 5; in each the phases
\* run in the order gravity, integration, index resync, collision
\* resolution, boundary constraints, each over all balls before the next
\* starts; none is skipped or repeated.
C5_PipelineOrder ==
    [][ /\ IsPrefix(log', ExpectedLog)
        /\ (pc = "solve_constraints" /\ pc' = "update") => log' = ExpectedLog
        /\ pc' = "update_position" =>
              \A e \in DOMAIN balls' :
                  balls'[e].acceleration = Vec2(0, -1000 * SCALE)
        /\ (pc = "update_position" /\ pc' = "update_quadtree") =>
              \A e \in DOMAIN balls :
                  /\ balls'[e].acceleration = ZERO
                  /\ balls'[e].position_old = balls[e].position_current
                  /\ ~balls[e].position_current.nan =>
                       balls'[e].position_current.y - balls[e].position_current.y
                         - (balls[e].position_current.y - balls[e].position_old.y)
                       = -((SCALE * (dt \div 5) * (dt \div 5)) \div 1000)
      ]_vars

C5_Witness ==
    /\ StepCompleted
    /\ log = ExpectedLog
    /\ dt = 0
    /\ Cardinality(DOMAIN balls) = 2
    /\ \A e \in DOMAIN balls : balls[e].position_current.y < 0

\* the square of side 2 x radius centered on the position of a ball
BoxAround(vo) ==
    IF vo.position_current.nan
    THEN [x |-> 0, y |-> 0, w |-> 2 * vo.radius, h |-> 2 * vo.radius,
          nan |-> TRUE]
    ELSE [x |-> vo.position_current.x - vo.radius,
          y |-> vo.position_current.y - vo.radius,
          w |-> 2 * vo.radius, h |-> 2 * vo.radius, nan |-> FALSE]

\* C6: when collision resolution issues its overlap queries, the index box
\* of every ball is the square of side 2 x radius centered on the ball's
\* current position_current; no box is stale.
C6_ResyncBarrier ==
    pc = "solve_colisions" =>
        /\ \A i \in DOMAIN quadtree :
              /\ quadtree[i].value \in DOMAIN balls
              /\ quadtree[i].region = BoxAround(balls[quadtree[i].value])
        /\ \A e \in DOMAIN balls :
              Cardinality({i \in DOMAIN quadtree : quadtree[i].value = e}) = 1

\* the first substep of a ball spawned since the previous step, next to a
\* ball that has fallen far from the spawn point
C6_Witness ==
    /\ pc = "solve_colisions"
    /\ substep = 0
    /\ \E e1, e2 \in DOMAIN balls :
          /\ e1 # e2
          /\ balls[e1].position_old = ZERO
          /\ balls[e1].position_current # ZERO
          /\ ~balls[e2].position_current.nan
          /\ balls[e2].position_current.y < -100 * SCALE

\* squared distance between the centers of the two balls
SepSqCurrent ==
    LET d == VSub(balls[2].position_current, balls[1].position_current)
    IN  d.x * d.x + d.y * d.y

SepSqOld ==
    LET d == VSub(balls[2].position_old, balls[1].position_old)
    IN  d.x * d.x + d.y * d.y

\* a substep has just ended: position_old holds the position at the end of
\* the substep before it
AtSubstepEnd == nsub >= 1 /\ pc \in {"apply_gravity", "update"}

\* C7: two balls of radius 10 with centers 15 apart, at rest, gravity term
\* zero: the first collision pass increases the separation, from one
\* substep to the next the separation never decreases, and it reaches the
\* sum of the radii, 20.
C7_PairSeparates ==
    Cardinality(DOMAIN balls) = 2 =>
        /\ \A e \in DOMAIN balls : ~balls[e].position_current.nan
        /\ (nsub = 1 /\ pc = "solve_constraints") =>
              SepSqCurrent > (15 * SCALE) * (15 * SCALE)
        /\ AtSubstepEnd =>
              /\ SepSqCurrent >= SepSqOld
              /\ SepSqCurrent > (15 * SCALE) * (15 * SCALE)
        /\ (AtSubstepEnd /\ nsub >= 2) =>
              SepSqCurrent >= (balls[1].radius + balls[2].radius)
                                * (balls[1].radius + balls[2].radius)

C7_Witness ==
    /\ Cardinality(DOMAIN balls) = 2
    /\ AtSubstepEnd
    /\ nsub >= 3
    /\ clamped
    /\ SepSqCurrent > SepSqOld

\* the gravity term of one substep, GRAVITY * sub_dt^2, for a frame delta
\* in milliseconds (negative; exact for the deltas of the scenarios)
GravityStep(delta) == -((1000 * SCALE * (delta \div 5) * (delta \div 5)) \div 1000000)

\* C8 as amended: a single ball at rest at the spawn point, before any clamp
\* engages, after n substeps of sub_dt has moved vertically by exactly
\* GRAVITY * sub_dt^2 * n * (n + 1) / 2 = 0.5 * GRAVITY * T * (T + sub_dt)
\* and horizontally by 0.
C8_VerletFreeFall ==
    (Cardinality(DOMAIN balls) = 1 /\ ~clamped) =>
        \A delta \in clock :
            /\ balls[1].position_current.x = 0
            /\ 2 * balls[1].position_current.y
                 = GravityStep(delta) * nsub * (nsub + 1)

C8_Witness ==
    /\ Cardinality(DOMAIN balls) = 1
    /\ ~clamped
    /\ nsub >= 10
    /\ balls[1].position_current.y < 0

\* C8: a single ball at rest, under gravity only and before any clamp
\* engages, after T = n * sub_dt has a vertical displacement that matches
\* the closed form 0.5 * GRAVITY * T^2 = GRAVITY * sub_dt^2 * n^2 / 2 within a
\* small tolerance (1 percent of the closed form), and has not moved
\* horizontally.
C8_ClosedForm ==
    (Cardinality(DOMAIN balls) = 1 /\ ~clamped /\ nsub >= 1) =>
        \A delta \in clock :
            /\ balls[1].position_current.x = 0
            /\ 100 * Abs(2 * balls[1].position_current.y
                           - GravityStep(delta) * nsub * nsub)
                 <= Abs(GravityStep(delta) * nsub * nsub)

\* the displacement solve_colisions gives ball e, over all other balls, from
\* the positions in b
RECURSIVE Displacement(_, _, _)
Displacement(b, e, rest) ==
    IF rest = {} THEN ZERO
    ELSE LET f == CHOOSE k \in rest : TRUE
             dist == VSub(b[f].position_current, b[e].position_current)
             sum == b[e].radius + b[f].radius
             this == IF ~dist.nan /\ dist.x * dist.x + dist.y * dist.y < sum * sum
                     THEN NormalizeTimes(dist, Div(sum - Length(dist), 2))
                     ELSE ZERO
         IN  VAdd(this, Displacement(b, e, rest \ {f}))

\* C9: a collision pass moves every ball A from its position at the start of
\* the pass by minus the sum over all balls B # A with |B - A| < rA + rB of
\* normalize(B - A) * (rA + rB - |B - A|) / 2, all positions being those at
\* the start of the pass.
C9_BatchedApply ==
    [][ (pc = "solve_colisions" /\ pc' = "solve_constraints") =>
          \A e \in DOMAIN balls :
              balls'[e] = [balls[e] EXCEPT !.position_current =
                  VSub(balls[e].position_current,
                       Displacement(balls, e, DOMAIN balls \ {e}))]
      ]_vars

C9_Witness ==
    /\ pc = "solve_constraints"
    /\ pushed
    /\ Cardinality(DOMAIN balls) = 2
    /\ \A e \in DOMAIN balls : ~balls[e].position_current.nan

CirclesOverlap(a, b) ==
    LET dist == VSub(b.position_current, a.position_current)
    IN  /\ ~dist.nan
        /\ dist.x * dist.x + dist.y * dist.y
             < (a.radius + b.radius) * (a.radius + b.radius)

\* C10: at a collision pass, for any two distinct balls whose circles
\* overlap, each is among the candidates of the query with the other's box.
C10_BroadPhaseConservative ==
    pc = "solve_colisions" =>
        \A i, j \in DOMAIN quadtree :
            (/\ i # j
             /\ quadtree[i].value \in DOMAIN balls
             /\ quadtree[j].value \in DOMAIN balls
             /\ CirclesOverlap(balls[quadtree[i].value], balls[quadtree[j].value]))
            => j \in get_overlapped(quadtree, quadtree[i].region)

C10_Witness ==
    /\ pc = "solve_colisions"
    /\ \E i, j \in DOMAIN quadtree :
          /\ i # j
          /\ CirclesOverlap(balls[quadtree[i].value], balls[quadtree[j].value])
          /\ balls[quadtree[i].value].position_current
               # balls[quadtree[j].value].position_current

=============================================================================
